---------------------------- MODULE Spec2Model ----------------------------
(***************************************************************************)
(* A model of PDFAssignmentParser (src/parser.py): the match finder, the   *)
(* confidence scorer, the proximity linker and the three entry points      *)
(* extract_assignments_and_dates, get_assignments_with_confidence and      *)
(* get_structured_data, together with the document handle they open.      *)
(*                                                                         *)
(* A text is the sequence of its characters, a character a string of       *)
(* length one; offsets are 0-based as in Python (character i of t is       *)
(* Ch(t, i)).  Chars turns a string literal into such a text.              *)
(* Scores are kept in tenths (0.3 is 3), so a confidence                   *)
(* (score + 1.6) / 3.1 is the rational (score10 + 16) / 31: the model      *)
(* keeps its numerator over ConfDen.                                       *)
(***************************************************************************)
EXTENDS Integers, Sequences, FiniteSets, TLC

(***************************************************************************)
(* Characters and str methods                                              *)
(***************************************************************************)
UpperAlpha == {"A","B","C","D","E","F","G","H","I","J","K","L","M",
               "N","O","P","Q","R","S","T","U","V","W","X","Y","Z"}
LowerAlpha == {"a","b","c","d","e","f","g","h","i","j","k","l","m",
               "n","o","p","q","r","s","t","u","v","w","x","y","z"}
Digits     == {"0","1","2","3","4","5","6","7","8","9"}
WordChars  == UpperAlpha \cup LowerAlpha \cup Digits \cup {"_"}
SpaceChars == {" ", "\n", "\t", "\r", "\f"}

UpperSeq == "ABCDEFGHIJKLMNOPQRSTUVWXYZ"
LowerSeq == "abcdefghijklmnopqrstuvwxyz"

\* The text of a string literal.
Chars(s) == [j \in 1..Len(s) |-> SubSeq(s, j, j)]

\* Character at 0-based offset i of text t.
Ch(t, i) == t[i + 1]

\* t[a:b] for 0 <= a, b <= len(t).
Slice(t, a, b) == SubSeq(t, a + 1, b)

LowerOf == [c \in UpperAlpha |->
               LET k == CHOOSE j \in 1..26 : SubSeq(UpperSeq, j, j) = c
               IN  SubSeq(LowerSeq, k, k)]
UpperOf == [c \in LowerAlpha |->
               LET k == CHOOSE j \in 1..26 : SubSeq(LowerSeq, j, j) = c
               IN  SubSeq(UpperSeq, k, k)]

ToLower(c) == IF c \in UpperAlpha THEN LowerOf[c] ELSE c

ToUpper(c) == IF c \in LowerAlpha THEN UpperOf[c] ELSE c

\* str.lower()
StrLower(t) == [j \in 1..Len(t) |-> ToLower(t[j])]

\* str.strip(): leading and trailing whitespace removed.
Strip(t) ==
    LET last == Len(t) - 1
        Kept(i) == Ch(t, i) \notin SpaceChars
    IN  IF \A i \in 0..last : ~Kept(i) THEN <<>>
        ELSE LET lo == CHOOSE i \in 0..last : Kept(i) /\ \A j \in 0..(i - 1) : ~Kept(j)
                 hi == CHOOSE i \in 0..last : Kept(i) /\ \A j \in (i + 1)..last : ~Kept(j)
             IN  Slice(t, lo, hi + 1)

\* a in b  (substring test)
Contains(b, a) ==
    \E i \in 0..(Len(b) - Len(a)) : Slice(b, i, i + Len(a)) = a

\* b.find(a): offset of the first occurrence of a in b (a occurs in b).
FindFirst(b, a) ==
    LET hits == {i \in 0..(Len(b) - Len(a)) : Slice(b, i, i + Len(a)) = a}
    IN  CHOOSE i \in hits : \A j \in hits : i <= j

Max(a, b) == IF a >= b THEN a ELSE b
Min(a, b) == IF a <= b THEN a ELSE b
Abs(a)    == IF a >= 0 THEN a ELSE -a

(***************************************************************************)
(* Regular expressions (Python's re: backtracking, leftmost, alternatives  *)
(* in order, greedy repetition).  Ends(r, t, i) is the sequence of offsets *)
(* at which a match of r starting at offset i can end, in the order the    *)
(* backtracking matcher tries them; the match re.search reports is its     *)
(* first element.                                                          *)
(***************************************************************************)
Unbounded == 0 - 1

Chr(S)          == [k |-> "chr", s |-> S]
WB              == [k |-> "wb"]
BOL             == [k |-> "bol"]
Cat(rs)         == [k |-> "cat", rs |-> rs]
Alt(rs)         == [k |-> "alt", rs |-> rs]
Rep(r, lo, hi)  == [k |-> "rep", r |-> r, lo |-> lo, hi |-> hi]
Opt(r)          == Rep(r, 0, 1)
Plus(r)         == Rep(r, 1, Unbounded)
Star(r)         == Rep(r, 0, Unbounded)

\* re.IGNORECASE on a set of characters.
IgnoreCase(S) == S \cup {ToLower(c) : c \in S} \cup {ToUpper(c) : c \in S}

\* A literal word, case-sensitive or (ic) case-insensitive.
Lit(w, ic) ==
    Cat([j \in 1..Len(w) |->
            Chr(IF ic THEN IgnoreCase({SubSeq(w, j, j)}) ELSE {SubSeq(w, j, j)})])

\* (?:w1|w2|...) of literal words.
Words(ws, ic) == Alt([j \in 1..Len(ws) |-> Lit(ws[j], ic)])

IsWordAt(t, i) == i >= 0 /\ i < Len(t) /\ Ch(t, i) \in WordChars

\* The offset at which the run of characters of S that starts at offset i
\* ends, the run going no further than offset `last`.
RunEnd(S, t, i, last) ==
    CHOOSE j \in i..last :
        /\ j = last \/ Ch(t, j) \notin S
        /\ \A n \in i..(j - 1) : Ch(t, n) \in S

\* The recursions over a list of candidate ends split the list in halves,
\* which keeps them shallow on long runs of one character class.
RECURSIVE Ends(_, _, _), CatEnds(_, _, _, _), CatRest(_, _, _, _, _, _),
          AltEnds(_, _, _, _), RepEnds(_, _, _, _, _), RepRest(_, _, _, _, _, _, _)
Ends(r, t, i) ==
    CASE r.k = "chr" -> IF i < Len(t) /\ Ch(t, i) \in r.s THEN <<i + 1>> ELSE <<>>
      [] r.k = "wb"  -> IF IsWordAt(t, i - 1) # IsWordAt(t, i) THEN <<i>> ELSE <<>>
      [] r.k = "bol" -> IF i = 0 \/ Ch(t, i - 1) = "\n" THEN <<i>> ELSE <<>>
      [] r.k = "cat" -> CatEnds(r.rs, 1, t, i)
      [] r.k = "alt" -> AltEnds(r.rs, 1, t, i)
      [] r.k = "rep" -> RepEnds(r.r, r.lo, r.hi, t, i)

\* rs[n..] matched in sequence from offset i.
CatEnds(rs, n, t, i) ==
    IF n > Len(rs) THEN <<i>>
    ELSE LET es == Ends(rs[n], t, i)
         IN  CatRest(es, 1, Len(es), rs, n, t)

\* rs[n+1..] continued from each of es[a..b], in order.
CatRest(es, a, b, rs, n, t) ==
    IF a > b THEN <<>>
    ELSE IF a = b THEN CatEnds(rs, n + 1, t, es[a])
    ELSE LET mid == (a + b) \div 2
         IN  CatRest(es, a, mid, rs, n, t) \o CatRest(es, mid + 1, b, rs, n, t)

AltEnds(rs, n, t, i) ==
    IF n > Len(rs) THEN <<>>
    ELSE Ends(rs[n], t, i) \o AltEnds(rs, n + 1, t, i)

\* Greedy r{lo,hi}: one more repetition is tried before stopping here.  Of a
\* character class the candidates are the ends of the run, longest first.
RepEnds(r, lo, hi, t, i) ==
    IF r.k = "chr"
    THEN LET most == (IF hi = Unbounded THEN RunEnd(r.s, t, i, Len(t))
                      ELSE RunEnd(r.s, t, i, Min(Len(t), i + hi))) - i
             its  == Max(lo, 0)
         IN  IF most < its THEN <<>>
             ELSE [k \in 1..(most - its + 1) |-> i + most - k + 1]
    ELSE (IF hi = 0 THEN <<>>
          ELSE LET es == Ends(r, t, i) IN RepRest(es, 1, Len(es), r, lo, hi, t))
         \o (IF lo <= 0 THEN <<i>> ELSE <<>>)

RepRest(es, a, b, r, lo, hi, t) ==
    IF a > b THEN <<>>
    ELSE IF a = b
         THEN RepEnds(r, lo - 1, IF hi = Unbounded THEN hi ELSE hi - 1, t, es[a])
    ELSE LET mid == (a + b) \div 2
         IN  RepRest(es, a, mid, r, lo, hi, t) \o RepRest(es, mid + 1, b, r, lo, hi, t)

\* The assertion every match of r begins with: "wb", "bol" or "none".
RECURSIVE Anchor(_), CommonAnchor(_, _)
Anchor(r) ==
    CASE r.k \in {"wb", "bol"} -> r.k
      [] r.k = "cat" -> IF r.rs = <<>> THEN "none" ELSE Anchor(r.rs[1])
      [] r.k = "alt" -> IF r.rs = <<>> THEN "none" ELSE CommonAnchor(r.rs, 1)
      [] OTHER -> "none"

CommonAnchor(rs, n) ==
    IF n = Len(rs) THEN Anchor(rs[n])
    ELSE IF Anchor(rs[n]) = CommonAnchor(rs, n + 1) THEN Anchor(rs[n]) ELSE "none"

\* Whether the assertion holds at offset i
Anchored(anchor, t, i) ==
    CASE anchor = "wb"  -> IsWordAt(t, i - 1) # IsWordAt(t, i)
      [] anchor = "bol" -> i = 0 \/ Ch(t, i - 1) = "\n"
      [] OTHER -> TRUE

\* The offsets at which a match of r starts; the matcher is run only where
\* the assertion r begins with holds, as it fails at once elsewhere.
StartsWith(r, t, anchor) ==
    {i \in 0..Len(t) : Anchored(anchor, t, i) /\ Ends(r, t, i) # <<>>}

Starts(r, t) == StartsWith(r, t, Anchor(r))

\* pattern.finditer(t) from offset i: the non-overlapping matches, left to
\* right, each the leftmost match at or after the end of the one before.
RECURSIVE FindIterFrom(_, _, _, _)
FindIterFrom(r, t, starts, i) ==
    IF \A j \in starts : j < i THEN <<>>
    ELSE LET j == CHOOSE x \in starts : x >= i /\ \A y \in starts : y >= i => x <= y
             e == Ends(r, t, j)[1]
         IN  <<[start |-> j, end |-> e]>>
             \o FindIterFrom(r, t, starts, IF e > j THEN e ELSE j + 1)

FindIter(r, t) == FindIterFrom(r, t, Starts(r, t), 0)

\* pattern.search(t) is not None
Search(r, t) == Starts(r, t) # {}

\* len(pattern.findall(t))
CountAll(r, t) == Len(FindIter(r, t))

\* match.group()
Group(t, m) == Slice(t, m.start, m.end)

(***************************************************************************)
(* The pattern library built by __init__                                   *)
(***************************************************************************)
Digit   == Chr(Digits)
SpaceRe == Chr(SpaceChars)

MonthNames == <<"January", "February", "March", "April", "May", "June", "July",
                "August", "September", "October", "November", "December">>
MonthAbbrevs == <<"Jan", "Feb", "Mar", "Apr", "May", "Jun",
                  "Jul", "Aug", "Sep", "Oct", "Nov", "Dec">>
WeekdayNames == <<"Monday", "Tuesday", "Wednesday", "Thursday", "Friday",
                  "Saturday", "Sunday">>

\* self.date_patterns, each compiled under re.IGNORECASE
date_patterns ==
    << \* \b\d{1,2}[/-]\d{1,2}[/-]\d{2,4}\b
       Cat(<<WB, Rep(Digit, 1, 2), Chr({"/", "-"}), Rep(Digit, 1, 2),
             Chr({"/", "-"}), Rep(Digit, 2, 4), WB>>),
       \* \b(?:January|...|December)\s+\d{1,2},?\s+\d{4}\b
       Cat(<<WB, Words(MonthNames, TRUE), Plus(SpaceRe), Rep(Digit, 1, 2),
             Opt(Chr({","})), Plus(SpaceRe), Rep(Digit, 4, 4), WB>>),
       \* \b(?:Jan|...|Dec)\.?\s+\d{1,2},?\s+\d{4}\b
       Cat(<<WB, Words(MonthAbbrevs, TRUE), Opt(Chr({"."})), Plus(SpaceRe),
             Rep(Digit, 1, 2), Opt(Chr({","})), Plus(SpaceRe), Rep(Digit, 4, 4), WB>>),
       \* \b\d{1,2}\s+(?:January|...|December)\s+\d{4}\b
       Cat(<<WB, Rep(Digit, 1, 2), Plus(SpaceRe), Words(MonthNames, TRUE),
             Plus(SpaceRe), Rep(Digit, 4, 4), WB>>),
       \* \b\d{4}-\d{2}-\d{2}\b
       Cat(<<WB, Rep(Digit, 4, 4), Chr({"-"}), Rep(Digit, 2, 2), Chr({"-"}),
             Rep(Digit, 2, 2), WB>>),
       \* \b(?:Monday|...|Sunday),?\s+(?:January|...|December)\s+\d{1,2},?\s+\d{4}\b
       Cat(<<WB, Words(WeekdayNames, TRUE), Opt(Chr({","})), Plus(SpaceRe),
             Words(MonthNames, TRUE), Plus(SpaceRe), Rep(Digit, 1, 2),
             Opt(Chr({","})), Plus(SpaceRe), Rep(Digit, 4, 4), WB>>) >>

\* self.assignment_keywords, each compiled under re.IGNORECASE
assignment_keywords ==
    << Cat(<<WB, Lit("assignment", TRUE), WB>>),
       Cat(<<WB, Lit("assignments", TRUE), WB>>),
       Cat(<<WB, Lit("due", TRUE), Plus(SpaceRe), Lit("date", TRUE), WB>>),
       Cat(<<WB, Lit("due", TRUE), WB>>),
       Cat(<<WB, Lit("homework", TRUE), WB>>),
       Cat(<<WB, Lit("project", TRUE), WB>>),
       Cat(<<WB, Lit("exam", TRUE), WB>>),
       Cat(<<WB, Lit("final", TRUE), WB>>),
       Cat(<<WB, Lit("midterm", TRUE), WB>>),
       Cat(<<WB, Lit("quiz", TRUE), WB>>),
       Cat(<<WB, Lit("lab", TRUE), WB>>) >>

\* '|'.join(f'({pattern})' ...), re.IGNORECASE
combined_date_pattern == Alt(date_patterns)

assignment_pattern == Alt(assignment_keywords)

\* r'\b(?:assignment|homework|hw|project|exam|quiz|lab)\s*[#:]?\s*\d+\b', re.IGNORECASE
assignment_number ==
    Cat(<<WB,
          Words(<<"assignment", "homework", "hw", "project", "exam", "quiz", "lab">>, TRUE),
          Star(SpaceRe), Opt(Chr({"#", ":"})), Star(SpaceRe), Plus(Digit), WB>>)

\* r'\b(?:submit|complete|turn\s+in|hand\s+in|due|hand\s+out|assign)\b', re.IGNORECASE
action_verbs ==
    Cat(<<WB,
          Alt(<<Lit("submit", TRUE), Lit("complete", TRUE),
                Cat(<<Lit("turn", TRUE), Plus(SpaceRe), Lit("in", TRUE)>>),
                Cat(<<Lit("hand", TRUE), Plus(SpaceRe), Lit("in", TRUE)>>),
                Lit("due", TRUE),
                Cat(<<Lit("hand", TRUE), Plus(SpaceRe), Lit("out", TRUE)>>),
                Lit("assign", TRUE)>>),
          WB>>)

\* r'\b(?:points?|pts?|worth|percent|%|grade)\b', re.IGNORECASE
point_values ==
    Cat(<<WB,
          Alt(<<Cat(<<Lit("point", TRUE), Opt(Lit("s", TRUE))>>),
                Cat(<<Lit("pt", TRUE), Opt(Lit("s", TRUE))>>),
                Lit("worth", TRUE), Lit("percent", TRUE), Lit("%", TRUE),
                Lit("grade", TRUE)>>),
          WB>>)

\* r'\b(?:Assignment|Homework|Project|Exam|Quiz|Lab)\s+[A-Z][A-Za-z\s]+', re.IGNORECASE
capitalized_title ==
    Cat(<<WB,
          Words(<<"Assignment", "Homework", "Project", "Exam", "Quiz", "Lab">>, TRUE),
          Plus(SpaceRe), Chr(IgnoreCase(UpperAlpha)),
          Plus(Chr(IgnoreCase(UpperAlpha \cup LowerAlpha) \cup SpaceChars))>>)

\* r'^[\s]*[•\-\*\d+\.]', re.MULTILINE  (the bullet character is outside the
\* ASCII alphabet of the modelled documents)
list_format ==
    Cat(<<BOL, Star(SpaceRe), Chr({"-", "*", "+", "."} \cup Digits)>>)

\* r'\bassignment\s+of\s+(?:grades?|readings?|scores?|points?)\b', re.IGNORECASE
assignment_of ==
    Cat(<<WB, Lit("assignment", TRUE), Plus(SpaceRe), Lit("of", TRUE), Plus(SpaceRe),
          Alt(<<Cat(<<Lit("grade", TRUE), Opt(Lit("s", TRUE))>>),
                Cat(<<Lit("reading", TRUE), Opt(Lit("s", TRUE))>>),
                Cat(<<Lit("score", TRUE), Opt(Lit("s", TRUE))>>),
                Cat(<<Lit("point", TRUE), Opt(Lit("s", TRUE))>>)>>),
          WB>>)

\* r'\breading\s+assignment\b', re.IGNORECASE
reading_assignment ==
    Cat(<<WB, Lit("reading", TRUE), Plus(SpaceRe), Lit("assignment", TRUE), WB>>)

\* r'\bassignment\s+(?:schedule|calendar|list|overview|summary)\b', re.IGNORECASE
general_description ==
    Cat(<<WB, Lit("assignment", TRUE), Plus(SpaceRe),
          Words(<<"schedule", "calendar", "list", "overview", "summary">>, TRUE), WB>>)

\* self.scoring_weights, in tenths
scoring_weights ==
    [ assignment_number   |-> 3,
      due_date_proximity  |-> 4,
      action_verbs        |-> 2,
      point_values        |-> 2,
      capitalized_title   |-> 2,
      list_format         |-> 1,
      specific_keywords   |-> 1,
      assignment_of       |-> 0 - 8,
      reading_assignment  |-> 0 - 5,
      general_description |-> 0 - 3 ]

\* The cap of the action-verb contribution (0.4), in tenths
ActionVerbCap == 4
\* max_possible_score (1.5) and min_possible_score (-1.6), in tenths
max_possible_score == 15
min_possible_score == -16
\* score_range (3.1) in tenths: the denominator of every confidence
ConfDen == max_possible_score - min_possible_score

(***************************************************************************)
(* The confidence scorer                                                   *)
(***************************************************************************)
SpecificKeywords == {"homework", "project", "exam", "quiz", "lab"}

\* The weight a signal adds when its condition holds.
Fire(self, name, cond) == IF cond THEN self.scoring_weights[name] ELSE 0

\* A faulty variant of DueDateProximity: a date of any page counts
DueDateProximityAnyPage(match, date_matches, context) ==
    IF date_matches # <<>>
    THEN \E j \in 1..Len(date_matches) :
            Contains(context, StrLower(date_matches[j].text))
    ELSE Search(combined_date_pattern, context)

\* Signal 2, the due-date proximity: the loop over date_matches with its
\* break, or the fallback on the raw date pattern when date_matches is falsy.
DueDateProximity(match, date_matches, context) ==
    IF date_matches # <<>>
    THEN \E j \in 1..Len(date_matches) :
            /\ date_matches[j].page_number = match.page_number
            /\ Contains(context, StrLower(date_matches[j].text))
    ELSE Search(combined_date_pattern, context)

\* A faulty variant of ActionVerbScore: the cap taken as a floor (max for min)
ActionVerbScoreFloor(self, context) ==
    Max(CountAll(action_verbs, context) * self.scoring_weights.action_verbs,
        ActionVerbCap)

\* A faulty variant of VerbScore: the product without the cap
VerbScoreUncapped(self, n) == n * self.scoring_weights.action_verbs

\* min(action_verb_matches * weight, 0.4), of n matches
VerbScore(self, n) == Min(n * self.scoring_weights.action_verbs, ActionVerbCap)

\* Signal 3: action_verb_matches = len(findall(context)); min(count * weight, 0.4)
ActionVerbScore(self, context) == VerbScore(self, CountAll(action_verbs, context))

\* The names of the signals that fire or not; the action verbs are counted.
SignalNames ==
    {"assignment_number", "due_date_proximity", "point_values", "capitalized_title",
     "list_format", "specific_keywords", "assignment_of", "reading_assignment",
     "general_description"}

\* The condition of each signal, tested on the match: the if of each
Conditions(match, date_matches, context) ==
    [ assignment_number   |-> Search(assignment_number, context),
      due_date_proximity  |-> DueDateProximity(match, date_matches, context),
      point_values        |-> Search(point_values, context),
      capitalized_title   |-> Search(capitalized_title, match.context),
      list_format         |-> Search(list_format, match.context),
      specific_keywords   |-> \E kw \in SpecificKeywords :
                                  Contains(StrLower(match.text), Chars(kw)),
      assignment_of       |-> Search(assignment_of, context),
      reading_assignment  |-> Search(reading_assignment, context),
      general_description |-> Search(general_description, context) ]

\* The tenths each signal adds to the score, given which conditions hold
\* and what the action verbs add.
SignalsWhen(self, fired, action_verb_score) ==
    [ assignment_number   |-> Fire(self, "assignment_number", fired.assignment_number),
      due_date_proximity  |-> Fire(self, "due_date_proximity", fired.due_date_proximity),
      action_verbs        |-> action_verb_score,
      point_values        |-> Fire(self, "point_values", fired.point_values),
      capitalized_title   |-> Fire(self, "capitalized_title", fired.capitalized_title),
      list_format         |-> Fire(self, "list_format", fired.list_format),
      specific_keywords   |-> Fire(self, "specific_keywords", fired.specific_keywords),
      assignment_of       |-> Fire(self, "assignment_of", fired.assignment_of),
      reading_assignment  |-> Fire(self, "reading_assignment", fired.reading_assignment),
      general_description |-> Fire(self, "general_description", fired.general_description) ]

\* The signals of one match, by name: the tenths each adds to the score.
Signals(self, match, date_matches) ==
    SignalsWhen(self, Conditions(match, date_matches, StrLower(match.context)),
                ActionVerbScore(self, StrLower(match.context)))

\* The sum of the additions
SumOf(s) ==
    s.assignment_number + s.due_date_proximity + s.action_verbs
    + s.point_values + s.capitalized_title + s.list_format
    + s.specific_keywords + s.assignment_of + s.reading_assignment
    + s.general_description

\* score, in tenths
RawScore(self, match, date_matches) == SumOf(Signals(self, match, date_matches))

\* A faulty variant of Normalize: the quotient without the clamp to [0, 1]
NormalizeUnclamped(score) == score - min_possible_score

\* max(0.0, min(1.0, (score - min_possible_score) / score_range)), as the
\* numerator over ConfDen
Normalize(score) == Max(0, Min(ConfDen, score - min_possible_score))

\* A faulty variant of MeetsThreshold: the comparison turned round
MeetsThresholdBelow(conf, threshold) == conf * 10 <= threshold * ConfDen

\* normalized_score >= threshold, threshold in tenths
MeetsThreshold(conf, threshold) == conf * 10 >= threshold * ConfDen

\* is_real = normalized_score >= threshold; return (is_real, normalized_score)
Verdict(normalized_score, threshold) ==
    [is_real |-> MeetsThreshold(normalized_score, threshold),
     confidence |-> normalized_score]

\* _is_real_assignment(match, date_matches, threshold); threshold is <<>>
\* for None and <<t>> otherwise.
IsRealAssignment(self, match, date_matches, threshold) ==
    Verdict(Normalize(RawScore(self, match, date_matches)),
            IF threshold = <<>> THEN self.assignment_threshold ELSE threshold[1])

(***************************************************************************)
(* The match finder                                                        *)
(***************************************************************************)
\* position when the spatial lookup finds nothing or raises
SentinelBox == <<0, 0, 0, 0>>

\* AssignmentMatch(text, page_number, context, match_type, position)
AssignmentMatch(text, page_number, context, match_type, position) ==
    [text |-> text, page_number |-> page_number, context |-> context,
     match_type |-> match_type, position |-> position]

\* A faulty variant of ExtractContext: the window opened context_window
\* after the start of the match instead of before it
ExtractContextShifted(self, text, match_start, match_end) ==
    LET start_pos == Min(Len(text), match_start + self.context_window)
        end_pos   == Min(Len(text), match_end + self.context_window)
    IN  Strip(Slice(text, start_pos, Max(start_pos, end_pos)))

\* _extract_context(text, match_start, match_end)
ExtractContext(self, text, match_start, match_end) ==
    LET start_pos == Max(0, match_start - self.context_window)
        end_pos   == Min(Len(text), match_end + self.context_window)
    IN  Strip(Slice(text, start_pos, end_pos))

\* What page.search_for can do for one lookup: return rectangles, return
\* none, or raise.
LookupOutcomes == {"hit", "miss", "raise"}

\* _get_bounding_box(doc, page_num, match_text).  The page geometry is kept
\* as character offsets: the rectangle of the first instance of match_text
\* on the page is <<offset, page, offset + len, page + 1>>.
GetBoundingBox(doc, page_num, match_text, outcome) ==
    IF outcome = "hit" /\ Contains(doc[page_num + 1], match_text)
    THEN LET off == FindFirst(doc[page_num + 1], match_text)
         IN  <<off, page_num, off + Len(match_text), page_num + 1>>
    ELSE SentinelBox

\* for page_num, text in enumerate(page_texts): for match in pattern.finditer(text):
\* the occurrences in scan order, from page index p (1-based) on.
RECURSIVE OccurrencesFrom(_, _, _)
OccurrencesFrom(pattern, page_texts, p) ==
    IF p > Len(page_texts) THEN <<>>
    ELSE LET ms == FindIter(pattern, page_texts[p])
         IN  [j \in 1..Len(ms) |->
                 [page_num |-> p - 1, start |-> ms[j].start, end |-> ms[j].end]]
             \o OccurrencesFrom(pattern, page_texts, p + 1)

Occurrences(pattern, page_texts) == OccurrencesFrom(pattern, page_texts, 1)

\* The loop body of _find_assignments and of _find_dates: the match record
\* of the occurrence o, its spatial lookup doing what `outcome` says.
MatchOf(self, doc, page_texts, o, match_type, outcome) ==
    AssignmentMatch(
        Slice(page_texts[o.page_num + 1], o.start, o.end),
        o.page_num + 1,
        ExtractContext(self, page_texts[o.page_num + 1], o.start, o.end),
        match_type,
        GetBoundingBox(doc, o.page_num,
                       Slice(page_texts[o.page_num + 1], o.start, o.end), outcome))

\* A faulty variant of MatchesOf: an occurrence whose lookup gives no
\* rectangle is left out
MatchesOfFound(self, doc, page_texts, occ, match_type, lookups) ==
    LET Found(m) == m.position # SentinelBox
    IN  SelectSeq([j \in 1..Len(occ) |->
                      MatchOf(self, doc, page_texts, occ[j], match_type, lookups[j])],
                  Found)

\* The match records of the occurrences occ, in order; lookups[j] is what
\* the spatial lookup of the j-th does.
MatchesOf(self, doc, page_texts, occ, match_type, lookups) ==
    [j \in 1..Len(occ) |->
        MatchOf(self, doc, page_texts, occ[j], match_type, lookups[j])]

\* What the spatial lookups of the occurrences occ can do, one outcome each
Lookups(occ) == [1..Len(occ) -> LookupOutcomes]

\* The lists of match records the occurrences occ can give
FoundMatches(self, doc, page_texts, occ, match_type) ==
    {MatchesOf(self, doc, page_texts, occ, match_type, lookups) : lookups \in Lookups(occ)}

\* _find_assignments(doc, page_texts): the lists it can return
FindAssignments(self, doc, page_texts) ==
    FoundMatches(self, doc, page_texts, Occurrences(assignment_pattern, page_texts),
                 "assignment")

\* _find_dates(doc, page_texts): the lists it can return
FindDates(self, doc, page_texts) ==
    FoundMatches(self, doc, page_texts, Occurrences(combined_date_pattern, page_texts),
                 "date")

(***************************************************************************)
(* The proximity linker                                                    *)
(***************************************************************************)
\* "if distance < 300"
ProximityWindow == 300

\* A faulty variant of WithinProximity: distance <= 300
WithinProximityInclusive(assn_match, date_match) ==
    Abs(assn_match.start - date_match.start) <= ProximityWindow

\* distance = abs(assn_match.start() - date_match.start()); distance < 300
WithinProximity(assn_match, date_match) ==
    Abs(assn_match.start - date_match.start) < ProximityWindow

\* A faulty variant of PairedDate: the closest qualifying date occurrence
\* instead of the first one
PairedClosest(assn_match, date_regex_matches) ==
    LET ok == {k \in 1..Len(date_regex_matches) :
                  WithinProximity(assn_match, date_regex_matches[k])}
    IN  IF ok = {} THEN 0
        ELSE CHOOSE k \in ok : \A n \in ok :
                Abs(assn_match.start - date_regex_matches[k].start)
                    <= Abs(assn_match.start - date_regex_matches[n].start)

\* The inner loop with its break: the index of the date occurrence the
\* assignment occurrence is paired with, 0 when the loop ends without one.
PairedDate(assn_match, date_regex_matches) ==
    LET ok == {k \in 1..Len(date_regex_matches) :
                  WithinProximity(assn_match, date_regex_matches[k])}
    IN  IF ok = {} THEN 0 ELSE CHOOSE k \in ok : \A n \in ok : k <= n

\* The combined match built for one pair.
CombinedMatch(self, text, page_num, assn_match, date_match) ==
    LET start_pos == Min(assn_match.start, date_match.start)
        end_pos   == Max(assn_match.end, date_match.end)
    IN  AssignmentMatch(Group(text, assn_match) \o Chars(" | ") \o Group(text, date_match),
                        page_num + 1,
                        ExtractContext(self, text, start_pos, end_pos),
                        "combined", SentinelBox)

\* The body of the page loop: the combined matches of one page, from the
\* j-th assignment occurrence on.
RECURSIVE CombinedOnPageFrom(_, _, _, _, _, _)
CombinedOnPageFrom(self, text, page_num, assignment_regex_matches, date_regex_matches, j) ==
    IF j > Len(assignment_regex_matches) THEN <<>>
    ELSE LET k == PairedDate(assignment_regex_matches[j], date_regex_matches)
         IN  (IF k = 0 THEN <<>>
              ELSE <<CombinedMatch(self, text, page_num, assignment_regex_matches[j],
                                   date_regex_matches[k])>>)
             \o CombinedOnPageFrom(self, text, page_num, assignment_regex_matches,
                                   date_regex_matches, j + 1)

RECURSIVE CombinedFromPage(_, _, _)
CombinedFromPage(self, page_texts, p) ==
    IF p > Len(page_texts) THEN <<>>
    ELSE CombinedOnPageFrom(self, page_texts[p], p - 1,
                            FindIter(assignment_pattern, page_texts[p]),
                            FindIter(combined_date_pattern, page_texts[p]), 1)
         \o CombinedFromPage(self, page_texts, p + 1)

\* _find_combined_matches(page_texts, assignment_matches, date_matches): the
\* body scans page_texts again and reads neither list of matches.
FindCombinedMatches(self, page_texts, assignment_matches, date_matches) ==
    CombinedFromPage(self, page_texts, 1)

\* A faulty variant of FilterRealAssignments: the survivors, last first
FilterRealAssignmentsReversed(self, assignment_matches, date_matches) ==
    LET Real(m) == IsRealAssignment(self, m, date_matches, <<>>).is_real
        kept == SelectSeq(assignment_matches, Real)
    IN  [j \in 1..Len(kept) |-> kept[Len(kept) + 1 - j]]

\* filter_real_assignments(assignment_matches, date_matches)
FilterRealAssignments(self, assignment_matches, date_matches) ==
    LET Real(m) == IsRealAssignment(self, m, date_matches, <<>>).is_real
    IN  SelectSeq(assignment_matches, Real)


(***************************************************************************)
(* The aggregator (get_assignments_with_confidence, get_structured_data)   *)
(***************************************************************************)
\* The dictionary get_classification returns for a verdict
Classification(c) ==
    [is_real |-> c.is_real, confidence |-> c.confidence,
     confidence_percentage |-> c.confidence * 100]

\* A faulty variant of GetClassification: scored against 0.5, not against
\* the parser's threshold
GetClassificationAtHalf(self, matches, assn_match) ==
    Classification(IsRealAssignment(self, assn_match, matches.dates, <<5>>))

\* get_classification(assn_match) of get_structured_data
GetClassification(self, matches, assn_match) ==
    Classification(IsRealAssignment(self, assn_match, matches.dates, <<>>))

\* One dictionary of get_assignments_with_confidence
ScoredEntry(match, c) ==
    [text |-> match.text, page |-> match.page_number, context |-> match.context,
     is_real |-> c.is_real, confidence |-> c.confidence, position |-> match.position]

\* The list get_assignments_with_confidence returns.
AssignmentsWithConfidence(self, assignment_matches, date_matches) ==
    [j \in 1..Len(assignment_matches) |->
        ScoredEntry(assignment_matches[j],
                    IsRealAssignment(self, assignment_matches[j], date_matches, <<>>))]

\* match_data of the by_page loop, for an assignment and for the other types
PlainData(match) ==
    [text |-> match.text, context |-> match.context, position |-> match.position]

EnrichedData(match, c) ==
    [text |-> match.text, context |-> match.context, position |-> match.position,
     is_real |-> c.is_real, confidence |-> c.confidence,
     confidence_percentage |-> c.confidence_percentage]

AssignmentData(self, matches, match) ==
    EnrichedData(match, GetClassification(self, matches, match))

OnPage(match_list, page) ==
    LET Here(m) == m.page_number = page IN SelectSeq(match_list, Here)

\* by_page: page number -> the three lists of match_data, in list order
ByPage(self, matches) ==
    LET all   == matches.assignments \o matches.dates \o matches.combined
        pages == {all[j].page_number : j \in 1..Len(all)}
    IN  [page \in pages |->
            LET a == OnPage(matches.assignments, page)
                d == OnPage(matches.dates, page)
                c == OnPage(matches.combined, page)
            IN  [assignments |-> [j \in 1..Len(a) |-> AssignmentData(self, matches, a[j])],
                 dates       |-> [j \in 1..Len(d) |-> PlainData(d[j])],
                 combined    |-> [j \in 1..Len(c) |-> PlainData(c[j])]]]

\* A faulty variant of AssnText: the combined text taken whole
AssnTextWhole(text) == text

\* combined.text.split(' | ')[0] if ' | ' in combined.text else combined.text
AssnText(text) ==
    IF Contains(text, Chars(" | "))
    THEN Slice(text, 0, FindFirst(text, Chars(" | ")))
    ELSE text

\* next((a for a in matches['assignments'] if ...), None): the index of the
\* first such assignment match, 0 for None
CorrespondingAssn(matches, combined) ==
    LET ok == {j \in 1..Len(matches.assignments) :
                  /\ matches.assignments[j].text = AssnText(combined.text)
                  /\ matches.assignments[j].page_number = combined.page_number}
    IN  IF ok = {} THEN 0 ELSE CHOOSE j \in ok : \A n \in ok : j <= n

\* assignment_data of a combined match, without and with classification
PlainEntry(combined) ==
    [page |-> combined.page_number, context |-> combined.context,
     full_text |-> combined.text]

ClassifiedEntry(combined, c) ==
    [page |-> combined.page_number, context |-> combined.context,
     full_text |-> combined.text, is_real |-> c.is_real,
     confidence |-> c.confidence, confidence_percentage |-> c.confidence_percentage]

\* One entry of potential_assignments for a combined match; j is the index
\* of corresponding_assn, 0 for None
EntryFor(self, matches, combined, j) ==
    IF j = 0 THEN PlainEntry(combined)
    ELSE ClassifiedEntry(combined, GetClassification(self, matches, matches.assignments[j]))

CombinedEntry(self, matches, combined) ==
    EntryFor(self, matches, combined, CorrespondingAssn(matches, combined))

\* nearby_dates of one assignment match
NearbyDates(matches, assn) ==
    LET Near(d) == /\ d.page_number = assn.page_number
                   /\ (Contains(assn.context, d.context) \/ Contains(d.context, assn.context))
    IN  SelectSeq(matches.dates, Near)

\* assignment_data of a standalone assignment
StandaloneEntry(assn, nearby_dates, c) ==
    [page |-> assn.page_number, context |-> assn.context,
     assignment_text |-> assn.text,
     nearby_dates |-> [k \in 1..Len(nearby_dates) |-> nearby_dates[k].text],
     is_real |-> c.is_real, confidence |-> c.confidence,
     confidence_percentage |-> c.confidence_percentage]

\* A faulty variant of StandaloneOf: no entry for an assignment match that a
\* combined match already stands for
StandaloneOfDeduplicated(self, matches, assn, nearby_dates) ==
    IF \/ nearby_dates = <<>>
       \/ \E j \in 1..Len(matches.combined) :
              /\ AssnText(matches.combined[j].text) = assn.text
              /\ matches.combined[j].page_number = assn.page_number
    THEN <<>>
    ELSE <<StandaloneEntry(assn, nearby_dates, GetClassification(self, matches, assn))>>

\* The entry of one assignment match, if it has nearby dates
StandaloneOf(self, matches, assn, nearby_dates) ==
    IF nearby_dates = <<>> THEN <<>>
    ELSE <<StandaloneEntry(assn, nearby_dates, GetClassification(self, matches, assn))>>

\* The standalone entries, from the j-th assignment match on
RECURSIVE StandaloneFrom(_, _, _)
StandaloneFrom(self, matches, j) ==
    IF j > Len(matches.assignments) THEN <<>>
    ELSE StandaloneOf(self, matches, matches.assignments[j],
                      NearbyDates(matches, matches.assignments[j]))
         \o StandaloneFrom(self, matches, j + 1)

\* potential_assignments
PotentialAssignments(self, matches) ==
    [j \in 1..Len(matches.combined) |-> CombinedEntry(self, matches, matches.combined[j])]
    \o StandaloneFrom(self, matches, 1)

(***************************************************************************)
(* Documents.  A document is the sequence of its pages' plain text.        *)
(***************************************************************************)
\* n times the character c
Fill(c, n) == [j \in 1..n |-> c]

\* How far around ProximityWindow the distances of the generated pages go
GapSpread == 1

Distances == (ProximityWindow - GapSpread)..(ProximityWindow + GapSpread)

\* An assignment keyword at offset 100 and a date `distance` characters
\* later, 30 characters before the end of the page
DateAfter(distance) ==
    << Fill(".", 100) \o Chars("quiz") \o Fill(".", distance - 4) \o Chars("10/15/2026")
       \o Fill(".", 30) >>

\* A date at offset 0 and an assignment keyword `distance` characters later
DateBefore(distance) ==
    << Chars("10/15/2026") \o Fill(" ", distance - 10) \o Chars("exam") >>

Documents ==
    { <<Chars("Assignment 3 is due on 10/15/2026, worth 50 points.")>>,
      <<Chars("This covers the reading assignment schedule for the semester.")>>,
      <<Chars("- Homework 3: submit Lab report, complete by 10/15/2026 (50 points)")>>,
      <<Chars("Homework 1:\n- submit the lab report"), Chars("Due 10/20/2026 (20 pts)")>>,
      <<Chars("Quiz due date v10/20/2026"), Chars("10/20/2026")>>,
      <<Chars("110/20/2026 - see the quiz")>>,
      <<Chars("Lab 1: 1/2/2026 - no reading assignment - Quiz 2 (5 pts)")>>,
      <<Chars("1/1/2026") \o Fill(" ", 242) \o Chars("exam") \o Fill(" ", 6)
        \o Chars("2/2/2026")>>,
      DateAfter(250), DateAfter(350) }
    \cup {DateBefore(g) : g \in Distances}

\* context_window and assignment_threshold (in tenths) given to __init__:
\* the defaults 200 and 0.5, the 0.6 of the script, and the 0.9 and a small
\* window of the callers
ContextWindows == {20, 200}
Thresholds     == {3, 5, 6, 9}
ParserThresholds == {6, 9}

\* The parsers built: the default window with each threshold, and the small
\* window with the threshold of the script
Parsers ==
    {p \in [context_window : ContextWindows,
             assignment_threshold : ParserThresholds,
             scoring_weights : {scoring_weights}] :
        p.context_window = 200 \/ p.assignment_threshold = 6}

(***************************************************************************)
(* The state                                                               *)
(***************************************************************************)
VARIABLES
    parser,              \* the PDFAssignmentParser: its mutable attributes
    op,                  \* the entry point being served: extract, score, report
    filter_real,         \* its filter_real argument
    doc,                 \* the document at pdf_path
    pc,                  \* where the request is
    handle,              \* the fitz document: none, open, closed
    page_texts,          \* _extract_pages' page_texts
    assignment_matches,
    date_matches,
    combined_matches,
    outcome,             \* none, returned, raised
    result               \* what the entry point returned

vars == <<parser, op, filter_real, doc, pc, handle, page_texts,
          assignment_matches, date_matches, combined_matches, outcome, result>>

NoResult == [kind |-> "none"]

\* __init__
Init ==
    /\ parser \in Parsers
    /\ op = "none"
    /\ filter_real = FALSE
    /\ doc = <<>>
    /\ pc = "idle"
    /\ handle = "none"
    /\ page_texts = <<>>
    /\ assignment_matches = <<>>
    /\ date_matches = <<>>
    /\ combined_matches = <<>>
    /\ outcome = "none"
    /\ result = NoResult

\* The dictionary extract_assignments_and_dates returns
Matches ==
    [assignments |-> assignment_matches, dates |-> date_matches,
     combined |-> combined_matches]

(***************************************************************************)
(* The requests, step by step                                              *)
(***************************************************************************)
\* A caller enters one of the three entry points.
Call(o, d, f) ==
    /\ pc = "idle"
    /\ op' = o
    /\ doc' = d
    /\ filter_real' = f
    /\ pc' = "open"
    /\ UNCHANGED <<parser, handle, page_texts, assignment_matches, date_matches,
                   combined_matches, outcome, result>>

\* The request is over: its locals and what it returned are dropped (no
\* match outlives its request), the parser stays.
Release ==
    /\ pc = "done"
    /\ pc' = "idle"
    /\ op' = "none"
    /\ filter_real' = FALSE
    /\ doc' = <<>>
    /\ handle' = "none"
    /\ page_texts' = <<>>
    /\ assignment_matches' = <<>>
    /\ date_matches' = <<>>
    /\ combined_matches' = <<>>
    /\ outcome' = "none"
    /\ result' = NoResult
    /\ UNCHANGED parser

\* The request ends with an exception leaving the entry point.
Raise ==
    /\ pc' = "done"
    /\ outcome' = "raised"
    /\ result' = [kind |-> "error"]

\* doc = fitz.open(pdf_path): the document opens, or the open raises
Open(ok) ==
    /\ pc = "open"
    /\ IF ok
       THEN /\ handle' = "open"
            /\ pc' = IF Len(doc) = 0 THEN "find_assignments" ELSE "read"
            /\ UNCHANGED <<outcome, result>>
       ELSE /\ Raise
            /\ UNCHANGED handle
    /\ UNCHANGED <<parser, op, filter_real, doc, page_texts, assignment_matches,
                   date_matches, combined_matches>>

\* A faulty variant of ReadPage: the document is closed with its last page
ReadPageClosing(ok) ==
    /\ pc = "read"
    /\ IF ok
       THEN /\ page_texts' = Append(page_texts, doc[Len(page_texts) + 1])
            /\ pc' = IF Len(page_texts) + 1 = Len(doc) THEN "find_assignments" ELSE "read"
            /\ handle' = IF Len(page_texts) + 1 = Len(doc) THEN "closed" ELSE handle
            /\ UNCHANGED <<outcome, result>>
       ELSE /\ Raise
            /\ UNCHANGED <<page_texts, handle>>
    /\ UNCHANGED <<parser, op, filter_real, doc, assignment_matches,
                   date_matches, combined_matches>>

\* One round of the loop of _extract_pages: page.get_text() returns the
\* page's text, or raises.
ReadPage(ok) ==
    /\ pc = "read"
    /\ IF ok
       THEN /\ page_texts' = Append(page_texts, doc[Len(page_texts) + 1])
            /\ pc' = IF Len(page_texts) + 1 = Len(doc) THEN "find_assignments" ELSE "read"
            /\ UNCHANGED <<outcome, result>>
       ELSE /\ Raise
            /\ UNCHANGED page_texts
    /\ UNCHANGED <<parser, op, filter_real, doc, handle, assignment_matches,
                   date_matches, combined_matches>>

\* assignment_matches = self._find_assignments(doc, page_texts)
FindAssignmentsStep ==
    /\ pc = "find_assignments"
    /\ assignment_matches' \in FindAssignments(parser, doc, page_texts)
    /\ pc' = "find_dates"
    /\ UNCHANGED <<parser, op, filter_real, doc, handle, page_texts,
                   date_matches, combined_matches, outcome, result>>

\* date_matches = self._find_dates(doc, page_texts)
FindDatesStep ==
    /\ pc = "find_dates"
    /\ date_matches' \in FindDates(parser, doc, page_texts)
    /\ pc' = IF op = "score" THEN "close"
             ELSE IF filter_real THEN "filter" ELSE "combine"
    /\ UNCHANGED <<parser, op, filter_real, doc, handle, page_texts,
                   assignment_matches, combined_matches, outcome, result>>

\* A faulty variant of Filter: the filter leaves the strictest threshold it
\* knows in self.assignment_threshold
FilterStoringThreshold ==
    /\ pc = "filter"
    /\ assignment_matches' = FilterRealAssignments(parser, assignment_matches, date_matches)
    /\ parser' = [parser EXCEPT !.assignment_threshold = 9]
    /\ pc' = "combine"
    /\ UNCHANGED <<op, filter_real, doc, handle, page_texts,
                   date_matches, combined_matches, outcome, result>>

\* if filter_real: assignment_matches = self.filter_real_assignments(...)
Filter ==
    /\ pc = "filter"
    /\ assignment_matches' = FilterRealAssignments(parser, assignment_matches, date_matches)
    /\ pc' = "combine"
    /\ UNCHANGED <<parser, op, filter_real, doc, handle, page_texts,
                   date_matches, combined_matches, outcome, result>>

\* combined_matches = self._find_combined_matches(page_texts, assignment_matches, date_matches)
Combine ==
    /\ pc = "combine"
    /\ combined_matches' = FindCombinedMatches(parser, page_texts, assignment_matches,
                                               date_matches)
    /\ pc' = "close"
    /\ UNCHANGED <<parser, op, filter_real, doc, handle, page_texts,
                   assignment_matches, date_matches, outcome, result>>

\* doc.close()
Close ==
    /\ pc = "close"
    /\ handle' = "closed"
    /\ pc' = IF op = "score" THEN "score" ELSE "return"
    /\ UNCHANGED <<parser, op, filter_real, doc, page_texts, assignment_matches,
                   date_matches, combined_matches, outcome, result>>

\* extract_assignments_and_dates returns its dictionary: to the caller, or
\* to get_structured_data, which goes on.
ReturnMatches ==
    /\ pc = "return"
    /\ IF op = "extract"
       THEN /\ result' = [kind |-> "extract", matches |-> Matches]
            /\ outcome' = "returned"
            /\ pc' = "done"
       ELSE /\ pc' = "report"
            /\ UNCHANGED <<result, outcome>>
    /\ UNCHANGED <<parser, op, filter_real, doc, handle, page_texts,
                   assignment_matches, date_matches, combined_matches>>

\* The scoring loop of get_assignments_with_confidence and its return
Score ==
    /\ pc = "score"
    /\ result' = [kind |-> "score",
                  assignments |-> AssignmentsWithConfidence(parser, assignment_matches,
                                                            date_matches)]
    /\ outcome' = "returned"
    /\ pc' = "done"
    /\ UNCHANGED <<parser, op, filter_real, doc, handle, page_texts,
                   assignment_matches, date_matches, combined_matches>>

\* The rest of get_structured_data: by_page, potential_assignments, return
Report ==
    /\ pc = "report"
    /\ result' = [kind |-> "report", raw_matches |-> Matches,
                  by_page |-> ByPage(parser, Matches),
                  potential_assignments |-> PotentialAssignments(parser, Matches)]
    /\ outcome' = "returned"
    /\ pc' = "done"
    /\ UNCHANGED <<parser, op, filter_real, doc, handle, page_texts,
                   assignment_matches, date_matches, combined_matches>>

Next ==
    \/ \E d \in Documents, f \in BOOLEAN : Call("extract", d, f)
    \/ \E d \in Documents : Call("score", d, FALSE)
    \/ \E d \in Documents, f \in BOOLEAN : Call("report", d, f)
    \/ \E ok \in BOOLEAN : Open(ok)
    \/ \E ok \in BOOLEAN : ReadPage(ok)
    \/ FindAssignmentsStep
    \/ FindDatesStep
    \/ Filter
    \/ Combine
    \/ Close
    \/ ReturnMatches
    \/ Score
    \/ Report
    \/ Release

Spec == Init /\ [][Next]_vars

(***************************************************************************)
(* _is_real_assignment as a function of what its tests find: which of the  *)
(* signals' conditions hold in the context, how many action verbs the      *)
(* context holds, and the threshold it is called with                      *)
(***************************************************************************)
MaxVerbs == 3

\* The threshold argument: None, or any tenth of the unit interval
ScoreThresholds == {<<>>} \cup {<<t>> : t \in 0..10}

\* What the tests of one call find
Findings == [SignalNames -> BOOLEAN]

\* score, normalized_score and is_real of a call whose tests find `fired`
\* and n action verbs
VerdictWhen(self, fired, n, threshold) ==
    Verdict(Normalize(SumOf(SignalsWhen(self, fired, VerbScore(self, n)))),
            IF threshold = <<>> THEN self.assignment_threshold ELSE threshold[1])

\* A parser and the arguments of one call of _is_real_assignment
ScoreInit ==
    /\ parser \in Parsers
    /\ op = "none"
    /\ filter_real = FALSE
    /\ doc = <<>>
    /\ pc = "idle"
    /\ handle = "none"
    /\ page_texts = <<>>
    /\ assignment_matches = <<>>
    /\ date_matches = <<>>
    /\ combined_matches = <<>>
    /\ outcome = "none"
    /\ result \in {[kind |-> "call", fired |-> f, verbs |-> n, threshold |-> t] :
                      f \in Findings, n \in 0..MaxVerbs, t \in ScoreThresholds}

\* _is_real_assignment(match, date_matches, threshold)
Judge ==
    /\ result.kind = "call"
    /\ result' = [kind |-> "verdict", fired |-> result.fired, verbs |-> result.verbs,
                  threshold |-> result.threshold,
                  verdict |-> VerdictWhen(parser, result.fired, result.verbs,
                                          result.threshold)]
    /\ UNCHANGED <<parser, op, filter_real, doc, pc, handle, page_texts,
                   assignment_matches, date_matches, combined_matches, outcome>>

ScoreNext == Judge

ScoreSpec == ScoreInit /\ [][ScoreNext]_vars

(***************************************************************************)
(* Properties                                                              *)
(***************************************************************************)
\* The threshold arguments a caller can give: None, or a number
ThresholdArgs == {<<>>} \cup {<<t>> : t \in Thresholds}

\* The signals when none fires
NoSignals ==
    [ assignment_number |-> 0, due_date_proximity |-> 0, action_verbs |-> 0,
      point_values |-> 0, capitalized_title |-> 0, list_format |-> 0,
      specific_keywords |-> 0, assignment_of |-> 0, reading_assignment |-> 0,
      general_description |-> 0 ]

\* C1: in extract(path, filterReal = true) every combined match of the
\* returned dictionary pairs an assignment match that survived the filter, so
\* that the combined list is empty when no assignment match survived.
C1_CombinedFromFilteredOnly ==
    (pc = "done" /\ result.kind = "extract" /\ filter_real) =>
        \A j \in 1..Len(result.matches.combined) :
            CorrespondingAssn(result.matches, result.matches.combined[j]) # 0

\* The verdict on a raw sum lies in [0, 1] at every threshold argument.
VerdictInRange(self, score) ==
    \A t \in ThresholdArgs :
        Verdict(Normalize(score),
                IF t = <<>> THEN self.assignment_threshold ELSE t[1]).confidence
            \in 0..ConfDen

\* The confidence of one match lies in [0, 1] at every threshold argument:
\* the sum of the signals, which no threshold enters, is taken once.
ConfidenceInRange(self, match, dates) ==
    /\ IsRealAssignment(self, match, dates, <<>>).confidence \in 0..ConfDen
    /\ VerdictInRange(self, RawScore(self, match, dates))

\* C2: for every assignment match, with the date matches of the request or
\* with none, and at every threshold, the confidence _is_real_assignment
\* returns lies in [0.0, 1.0] (0..ConfDen over ConfDen), also when the raw
\* sum of the signals lies outside [-1.6, 1.5].
C2_ConfidenceInUnitInterval ==
    pc = "score" =>
        \A j \in 1..Len(assignment_matches) :
            /\ ConfidenceInRange(parser, assignment_matches[j], date_matches)
            /\ ConfidenceInRange(parser, assignment_matches[j], <<>>)

\* A match whose raw sum exceeds max_possible_score is scored 1.0.
C2_Witness ==
    /\ pc = "score"
    /\ \E j \in 1..Len(assignment_matches) :
          /\ RawScore(parser, assignment_matches[j], date_matches) > max_possible_score
          /\ IsRealAssignment(parser, assignment_matches[j], date_matches, <<>>).confidence
                = ConfDen

\* C3: _is_real_assignment has no hidden state: no step of any request
\* changes what it returns for a match, the date matches and a threshold
\* argument, so that two calls with the same arguments agree whatever was
\* served in between.  (The first disjunct is the case in which the
\* equation holds by substitution.)
C3_NoHiddenState ==
    [][ \/ parser' = parser
        \/ \A j \in 1..Len(assignment_matches) : \A t \in ThresholdArgs :
              IsRealAssignment(parser', assignment_matches[j], date_matches, t)
                = IsRealAssignment(parser, assignment_matches[j], date_matches, t) ]_vars

\* A request has scored matches, and scoring them again gives what it
\* returned.
C3_Witness ==
    /\ pc = "done" /\ result.kind = "score"
    /\ \E j \in 1..Len(result.assignments) : result.assignments[j].is_real
    /\ result.assignments
          = AssignmentsWithConfidence(parser, assignment_matches, date_matches)

\* The verdicts of one match, each with the threshold it is given at
VerdictsOf(self, match, dates) ==
    {[threshold |-> t, verdict |-> IsRealAssignment(self, match, dates, <<t>>)] :
        t \in Thresholds}

MonotoneVerdicts(vs) ==
    \A lo, hi \in vs :
        lo.threshold <= hi.threshold =>
            /\ hi.verdict.is_real => lo.verdict.is_real
            /\ lo.verdict.confidence = hi.verdict.confidence

\* The number of matches filter_real_assignments keeps, at each threshold
RealCounts(self, matches, dates) ==
    {[threshold |-> t,
      kept |-> Len(FilterRealAssignments([self EXCEPT !.assignment_threshold = t],
                                         matches, dates))] : t \in Thresholds}

Antitone(ns) ==
    \A lo, hi \in ns : lo.threshold <= hi.threshold => hi.kept <= lo.kept

\* C4: for thresholds t1 <= t2, a match that is real at t2 is real at t1,
\* its confidence is the same at both, and the filter keeps no more matches
\* at t2 than at t1.
C4_MonotoneInThreshold ==
    pc = "score" =>
        /\ \A j \in 1..Len(assignment_matches) :
              MonotoneVerdicts(VerdictsOf(parser, assignment_matches[j], date_matches))
        /\ Antitone(RealCounts(parser, assignment_matches, date_matches))

\* A match that is real at 0.3 and not at 0.9
C4_Witness ==
    /\ pc = "score"
    /\ \E j \in 1..Len(assignment_matches) :
          /\ IsRealAssignment(parser, assignment_matches[j], date_matches, <<3>>).is_real
          /\ ~IsRealAssignment(parser, assignment_matches[j], date_matches, <<9>>).is_real

\* Some date occurrence starts less than 300 characters from where a starts.
HasDateWithin(a, ds) ==
    \E k \in 1..Len(ds) : Abs(a.start - ds[k].start) < ProximityWindow

\* The assignment occurrences of a page that have such a date occurrence
Linked(as, ds) ==
    LET Near(a) == HasDateWithin(a, ds) IN SelectSeq(as, Near)

\* C5: on every page the linker emits as many combined matches as there are
\* assignment occurrences with a date occurrence of the same page starting
\* less than 300 characters away: one for each of these, none for the
\* others, and none across pages.
C5_LinkedIffWithinWindow ==
    pc = "return" =>
        \A p \in 1..Len(page_texts) :
            Len(OnPage(combined_matches, p))
                = Len(Linked(FindIter(assignment_pattern, page_texts[p]),
                             FindIter(combined_date_pattern, page_texts[p])))

\* The assignment at offset 100 and the date at offset 350 are linked.
C5_Witness ==
    /\ pc = "return"
    /\ doc = DateAfter(250)
    /\ Len(combined_matches) = 1
    /\ combined_matches[1].text = Chars("quiz | 10/15/2026")

\* The part of a combined text after " | "
DatePart(text) == Slice(text, FindFirst(text, Chars(" | ")) + 3, Len(text))

ContextHasText(m) == Contains(m.context, m.text)

ContextHasParts(m) ==
    /\ Contains(m.context, AssnText(m.text))
    /\ Contains(m.context, DatePart(m.text))

\* No occurrence lies within context_window characters of an end of the page.
AwayFromEdges(self, text, occ) ==
    \A j \in 1..Len(occ) :
        /\ occ[j].start >= self.context_window
        /\ occ[j].end + self.context_window <= Len(text)

PageClear(self, text) ==
    /\ AwayFromEdges(self, text, FindIter(assignment_pattern, text))
    /\ AwayFromEdges(self, text, FindIter(combined_date_pattern, text))

AllHaveText(match_list) ==
    \A j \in 1..Len(match_list) : ContextHasText(match_list[j])

\* C6, as stated: the context of every match (assignment, date, combined)
\* whose occurrence is not within context_window characters of an end of
\* its page contains the text of the match.  Read on the pages none of whose
\* occurrences is that close to an end.
C6_EveryContextHasText ==
    pc = "return" =>
        \A p \in 1..Len(page_texts) :
            PageClear(parser, page_texts[p]) =>
                /\ AllHaveText(OnPage(assignment_matches, p))
                /\ AllHaveText(OnPage(date_matches, p))
                /\ AllHaveText(OnPage(combined_matches, p))

\* C6, amended: the context of every assignment match and of every date
\* match contains its text, at the ends of a page too; the context of a
\* combined match contains the two parts of its text, the assignment part
\* and the date part, that " | " joins.
C6_ContextHasTextOrParts ==
    pc = "return" =>
        /\ AllHaveText(assignment_matches)
        /\ AllHaveText(date_matches)
        /\ \A j \in 1..Len(combined_matches) : ContextHasParts(combined_matches[j])

\* A combined match away from the ends of its page whose context holds both
\* parts of its text and not the text.
C6_Witness ==
    /\ pc = "return"
    /\ \E j \in 1..Len(combined_matches) :
          /\ PageClear(parser, page_texts[combined_matches[j].page_number])
          /\ ContextHasParts(combined_matches[j])
          /\ ~ContextHasText(combined_matches[j])

\* The index of the qualifying date occurrence that comes first on the page
FirstDateWithin(a, ds) ==
    CHOOSE k \in 1..Len(ds) :
        /\ Abs(a.start - ds[k].start) < ProximityWindow
        /\ \A n \in 1..Len(ds) :
              Abs(a.start - ds[n].start) < ProximityWindow => ds[k].start <= ds[n].start

\* The combined matches cs of a page are, in order, one for each linked
\* assignment occurrence, each naming the first qualifying date.
FirstDatePairs(text, as, linked, ds, cs) ==
    /\ Len(cs) <= Len(as)
    /\ Len(cs) <= Len(linked)
    /\ \A j \in 1..Len(cs) :
          cs[j].text = Group(text, linked[j]) \o Chars(" | ")
                         \o Group(text, ds[FirstDateWithin(linked[j], ds)])

PageFirstDatePairs(text, as, ds, cs) ==
    FirstDatePairs(text, as, Linked(as, ds), ds, cs)

\* C7: the linker emits at most one combined match for an assignment
\* occurrence, and its text names the first date occurrence of the page, in
\* ascending start offset, that is less than 300 characters away, not the
\* closest one.
C7_FirstQualifyingDate ==
    pc = "return" =>
        \A p \in 1..Len(page_texts) :
            PageFirstDatePairs(page_texts[p],
                               FindIter(assignment_pattern, page_texts[p]),
                               FindIter(combined_date_pattern, page_texts[p]),
                               OnPage(combined_matches, p))

\* The earlier date at distance 250 is named although the later one, at
\* distance 10, also qualifies.
C7_Witness ==
    /\ pc = "return"
    /\ Len(combined_matches) = 1
    /\ combined_matches[1].text = Chars("exam | 1/1/2026")
    /\ \E j \in 1..Len(date_matches) : date_matches[j].text = Chars("2/2/2026")

\* C8: when a request is over and its document had been opened, the
\* document has been closed, on every way out.
C8_HandleClosedOnExit ==
    (pc = "done" /\ handle # "none") => handle = "closed"

C9Context == Chars("Assignment 3 is due on 10/15/2026, worth 50 points.")

\* The match and the date match of C9 are about to be scored.
C9Case(m) ==
    /\ pc = "score"
    /\ m.text = Chars("Assignment")
    /\ m.context = C9Context
    /\ Len(date_matches) = 1
    /\ date_matches[1].text = Chars("10/15/2026")
    /\ date_matches[1].page_number = m.page_number

\* C9, as stated: the signals that fire are assignment_number (+0.30),
\* due_date_proximity (+0.40), point_values (+0.20) and capitalized_title
\* (+0.20); raw score 1.10, confidence 2.7/3.1, real at 0.6.
C9_SignalsAsStated ==
    \A j \in 1..Len(assignment_matches) :
        C9Case(assignment_matches[j]) =>
            /\ Signals(parser, assignment_matches[j], date_matches)
                  = [NoSignals EXCEPT !.assignment_number = 3,
                                      !.due_date_proximity = 4,
                                      !.point_values = 2,
                                      !.capitalized_title = 2]
            /\ RawScore(parser, assignment_matches[j], date_matches) = 11
            /\ IsRealAssignment(parser, assignment_matches[j], date_matches, <<6>>)
                  = [is_real |-> TRUE, confidence |-> 27]

\* C9, amended: the signals that fire are assignment_number (+0.30),
\* due_date_proximity (+0.40), action_verbs (one verb, "due": +0.20) and
\* point_values (+0.20); capitalized_title does not fire; raw score 1.10,
\* confidence 2.7/3.1, real at 0.6.
C9_SignalsOfTheCode ==
    \A j \in 1..Len(assignment_matches) :
        C9Case(assignment_matches[j]) =>
            /\ Signals(parser, assignment_matches[j], date_matches)
                  = [NoSignals EXCEPT !.assignment_number = 3,
                                      !.due_date_proximity = 4,
                                      !.action_verbs = 2,
                                      !.point_values = 2]
            /\ RawScore(parser, assignment_matches[j], date_matches) = 11
            /\ IsRealAssignment(parser, assignment_matches[j], date_matches, <<6>>)
                  = [is_real |-> TRUE, confidence |-> 27]

C9_Witness ==
    \E j \in 1..Len(assignment_matches) : C9Case(assignment_matches[j])

C10Context == Chars("This covers the reading assignment schedule for the semester.")

\* The match of C10 is about to be scored, with no date matches.
C10Case(m) ==
    /\ pc = "score"
    /\ m.text = Chars("assignment")
    /\ m.context = C10Context
    /\ date_matches = <<>>

\* C10: exactly reading_assignment (-0.50) and general_description (-0.30)
\* fire; raw score -0.80, confidence 0.8/3.1, not real at 0.6.
C10_OnlyNegativeSignals ==
    \A j \in 1..Len(assignment_matches) :
        C10Case(assignment_matches[j]) =>
            /\ Signals(parser, assignment_matches[j], date_matches)
                  = [NoSignals EXCEPT !.reading_assignment = 0 - 5,
                                      !.general_description = 0 - 3]
            /\ RawScore(parser, assignment_matches[j], date_matches) = 0 - 8
            /\ IsRealAssignment(parser, assignment_matches[j], date_matches, <<6>>)
                  = [is_real |-> FALSE, confidence |-> 8]

\* The part of a combined text before " | "
AssnPart(text) == Slice(text, 0, FindFirst(text, Chars(" | ")))

\* The index of the first assignment match with the text of the assignment
\* part of the combined match and with its page, 0 when there is none
FirstAssnFor(assignments, combined) ==
    LET ok == {k \in 1..Len(assignments) :
                  /\ assignments[k].text = AssnPart(combined.text)
                  /\ assignments[k].page_number = combined.page_number}
    IN  IF ok = {} THEN 0 ELSE CHOOSE k \in ok : \A n \in ok : k <= n

\* The entry carries the verdict v and its percentage.
CarriesVerdict(entry, v) ==
    /\ {"is_real", "confidence", "confidence_percentage"} \subseteq DOMAIN entry
    /\ entry.is_real = v.is_real
    /\ entry.confidence = v.confidence
    /\ entry.confidence_percentage = v.confidence * 100

\* The entry is the one of the combined match, classified as the k-th
\* assignment match is, or unclassified when k is 0.
EntryOfCombined(self, matches, combined, entry, k) ==
    /\ {"page", "context", "full_text"} \subseteq DOMAIN entry
    /\ entry.page = combined.page_number
    /\ entry.context = combined.context
    /\ entry.full_text = combined.text
    /\ IF k = 0
       THEN DOMAIN entry = {"page", "context", "full_text"}
       ELSE CarriesVerdict(entry, IsRealAssignment(self, matches.assignments[k],
                                                   matches.dates, <<>>))

\* C11: get_structured_data puts one potential_assignments entry per
\* combined match, first and in the order of the combined matches; the entry
\* carries the classification of the first assignment match of the result
\* with the text of the assignment part and the page of the combined match,
\* and no classification fields when there is no such assignment match.
C11_OneEntryPerCombined ==
    (pc = "done" /\ result.kind = "report") =>
        /\ Len(result.potential_assignments) >= Len(result.raw_matches.combined)
        /\ \A j \in 1..Len(result.potential_assignments) :
              ("full_text" \in DOMAIN result.potential_assignments[j])
                  <=> j <= Len(result.raw_matches.combined)
        /\ \A j \in 1..Len(result.raw_matches.combined) :
              EntryOfCombined(parser, result.raw_matches, result.raw_matches.combined[j],
                              result.potential_assignments[j],
                              FirstAssnFor(result.raw_matches.assignments,
                                           result.raw_matches.combined[j]))

\* A filtered report with an entry of a combined match that carries no
\* classification, its assignment match having been filtered out.
C11_Witness ==
    /\ pc = "done" /\ result.kind = "report" /\ filter_real
    /\ \E j \in 1..Len(result.raw_matches.combined) :
          /\ result.potential_assignments[j].full_text = result.raw_matches.combined[j].text
          /\ "is_real" \notin DOMAIN result.potential_assignments[j]

\* match_list holds one match for each of the occurrences occ, in their
\* order: the match the occurrence gives when its lookup finds nothing or
\* raises, but for the position, which is the sentinel or the rectangle found.
EmittedFor(self, d, texts, occ, match_type, match_list) ==
    /\ Len(match_list) = Len(occ)
    /\ \A j \in 1..Len(occ) :
          /\ \A o \in LookupOutcomes \ {"hit"} :
                MatchOf(self, d, texts, occ[j], match_type, o)
                    = [match_list[j] EXCEPT !.position = SentinelBox]
          /\ match_list[j].position
                \in {SentinelBox, MatchOf(self, d, texts, occ[j], match_type, "hit").position}

\* _find_dates has just returned.
DatesJustFound ==
    pc = (IF op = "score" THEN "close" ELSE IF filter_real THEN "filter" ELSE "combine")
    /\ (pc = "combine" => ~filter_real)

\* C12: whatever the spatial lookups do, _find_assignments and _find_dates
\* emit one match for every occurrence, in scan order; a match whose lookup
\* found nothing or raised has position (0, 0, 0, 0) and is otherwise the
\* same match.
C12_FailedLookupKeepsMatch ==
    /\ pc = "find_dates" =>
          EmittedFor(parser, doc, page_texts, Occurrences(assignment_pattern, page_texts),
                     "assignment", assignment_matches)
    /\ DatesJustFound =>
          EmittedFor(parser, doc, page_texts, Occurrences(combined_date_pattern, page_texts),
                     "date", date_matches)

\* Of two assignment matches of a document one has the sentinel position
\* and the other one a rectangle.
C12_Witness ==
    /\ pc = "find_dates"
    /\ \E j, k \in 1..Len(assignment_matches) :
          /\ assignment_matches[j].position = SentinelBox
          /\ assignment_matches[k].position # SentinelBox

(***************************************************************************)
(* C13: the raw score is the plain sum of the weights of the signals that  *)
(* fire (assignment number 0.3, due date proximity 0.4, point values 0.2,  *)
(* capitalized title 0.2, list format 0.1, specific keywords 0.1,          *)
(* "assignment of" -0.8, reading assignment -0.5, general description      *)
(* -0.3) plus min(0.2 * verbs, 0.4); the confidence is (raw + 1.6) / 3.1   *)
(* clamped to [0, 1]; and is_real holds exactly when the confidence is at  *)
(* least the threshold, the boundary included.                             *)
(***************************************************************************)
Tenths(b, w) == IF b THEN w ELSE 0

StatedRaw(fired, n) ==
      Tenths(fired.assignment_number, 3) + Tenths(fired.due_date_proximity, 4)
    + Tenths(fired.point_values, 2) + Tenths(fired.capitalized_title, 2)
    + Tenths(fired.list_format, 1) + Tenths(fired.specific_keywords, 1)
    + Tenths(fired.assignment_of, -8) + Tenths(fired.reading_assignment, -5)
    + Tenths(fired.general_description, -3)
    + (IF 2 * n < 4 THEN 2 * n ELSE 4)

\* The stated confidence, as the numerator over 31
StatedConfidence(raw) == IF raw + 16 < 0 THEN 0 ELSE IF raw + 16 > 31 THEN 31 ELSE raw + 16

ThresholdUsed(self, threshold) ==
    IF threshold = <<>> THEN self.assignment_threshold ELSE threshold[1]

C13_ScoreIsClampedSum ==
    result.kind = "verdict" =>
        LET stated == StatedConfidence(StatedRaw(result.fired, result.verbs))
        IN  /\ result.verdict.confidence = stated
            /\ result.verdict.is_real <=>
                   (stated * 10 >= ThresholdUsed(parser, result.threshold) * 31)

\* A call whose sum (1.7) leaves the range on the high side, with more verbs
\* than the cap counts, at the threshold 1.0 that the clamped confidence
\* just meets.
C13_Witness ==
    /\ result.kind = "verdict"
    /\ result.verbs = 3
    /\ StatedRaw(result.fired, result.verbs) = 17
    /\ result.threshold = <<10>>
    /\ result.verdict.confidence = 31
    /\ result.verdict.is_real

(***************************************************************************)
(* C14: the due-date proximity signal adds 0.4, once, to the score of an   *)
(* assignment match.  As stated: given a non-empty list of date matches,   *)
(* exactly when the lower-cased text of one of them occurs in the          *)
(* lower-cased context of the match; the date pattern is tested against    *)
(* the context only when the list is empty.  Of the code: the date match   *)
(* must also be on the page of the assignment match.                       *)
(***************************************************************************)
\* The tenths the signal adds to the score of m
DueDateTenths(self, m, dates) ==
    Fire(self, "due_date_proximity", DueDateProximity(m, dates, StrLower(m.context)))

\* Some date of the list, of the pages `pages`, has its text in the context
DateTextInContext(m, dates, pages) ==
    \E j \in 1..Len(dates) :
        /\ dates[j].page_number \in pages
        /\ Contains(StrLower(m.context), StrLower(dates[j].text))

\* The date pattern itself matches in the context
DatePatternInContext(m) == Search(combined_date_pattern, StrLower(m.context))

\* The state in which get_assignments_with_confidence scores the matches
Scoring == pc = "score"

C14_AnySuppliedDate ==
    Scoring =>
        \A j \in 1..Len(assignment_matches) :
            LET m == assignment_matches[j]
            IN  DueDateTenths(parser, m, date_matches) =
                    (IF date_matches # <<>>
                     THEN Tenths(DateTextInContext(m, date_matches, 1..Len(doc)), 4)
                     ELSE Tenths(DatePatternInContext(m), 4))

C14_SuppliedDateOfSamePage ==
    Scoring =>
        \A j \in 1..Len(assignment_matches) :
            LET m == assignment_matches[j]
            IN  DueDateTenths(parser, m, date_matches) =
                    (IF date_matches # <<>>
                     THEN Tenths(DateTextInContext(m, date_matches, {m.page_number}), 4)
                     ELSE Tenths(DatePatternInContext(m), 4))

\* A match whose context holds the text of a date of another page only,
\* and which the signal leaves alone.
C14_Witness ==
    /\ Scoring
    /\ date_matches # <<>>
    /\ \E j \in 1..Len(assignment_matches) :
           LET m == assignment_matches[j]
           IN  /\ DateTextInContext(m, date_matches, 1..Len(doc))
               /\ ~DateTextInContext(m, date_matches, {m.page_number})
               /\ DueDateTenths(parser, m, date_matches) = 0

\* The pattern is what fires the signal when no date was found.
C14_FallbackReached ==
    /\ Scoring
    /\ date_matches = <<>>
    /\ \E j \in 1..Len(assignment_matches) :
           DueDateTenths(parser, assignment_matches[j], date_matches) = 4

(***************************************************************************)
(* C15: overlapping keyword hits are not deduplicated: a page text that    *)
(* holds the phrase "due date" yields, for that occurrence, an assignment  *)
(* match with the text "due date" and an assignment match with the text    *)
(* "due".                                                                  *)
(***************************************************************************)
\* The assignment matches emitted for the occurrence that starts at `start`
\* of the page p
MatchesAt(occ, p, start) ==
    {j \in 1..Len(occ) : occ[j].page_num = p - 1 /\ occ[j].start = start}

\* For every "due date" of every page, both matches were emitted
BothFire(occ) ==
    \A p \in 1..Len(page_texts) :
        LET hits == FindIter(assignment_keywords[3], page_texts[p])
        IN  \A h \in 1..Len(hits) :
                LET at == MatchesAt(occ, p, hits[h].start)
                IN  /\ \E j \in at :
                           StrLower(assignment_matches[j].text) = Chars("due date")
                    /\ \E k \in at :
                           StrLower(assignment_matches[k].text) = Chars("due")

C15_OverlappingHitsBothFire ==
    pc = "find_dates" => BothFire(Occurrences(assignment_pattern, page_texts))

(***************************************************************************)
(* C16: potential_assignments is built additively, without deduplication:  *)
(* after the entries of the combined matches it holds one further entry    *)
(* for each assignment match that has a date match on its page whose       *)
(* context is a substring of the assignment's context or the other way     *)
(* round, and none for an assignment match without such a date; its length *)
(* is the number of combined matches plus the number of such assignment    *)
(* matches, and an assignment reached both ways appears twice.             *)
(***************************************************************************)
HasOverlappingDate(dates, a) ==
    \E k \in 1..Len(dates) :
        /\ dates[k].page_number = a.page_number
        /\ \/ Contains(a.context, dates[k].context)
           \/ Contains(dates[k].context, a.context)

\* The assignment matches that have such a date, in the order of the list
WithOverlappingDate(assignments, dates) ==
    LET Has(a) == HasOverlappingDate(dates, a) IN SelectSeq(assignments, Has)

StandaloneAre(potential, n, with) ==
    /\ Len(potential) = n + Len(with)
    /\ \A j \in 1..Len(with) :
           /\ "assignment_text" \in DOMAIN potential[n + j]
           /\ potential[n + j].assignment_text = with[j].text
           /\ potential[n + j].page = with[j].page_number
           /\ potential[n + j].context = with[j].context

C16_AdditiveWithoutDeduplication ==
    (pc = "done" /\ result.kind = "report") =>
        StandaloneAre(result.potential_assignments, Len(result.raw_matches.combined),
                      WithOverlappingDate(result.raw_matches.assignments,
                                          result.raw_matches.dates))

\* A report in which an assignment match stands twice, once through its
\* combined match and once on its own, next to an assignment match that has
\* no overlapping date and no entry of its own.
C16_Witness ==
    /\ pc = "done" /\ result.kind = "report"
    /\ LET potential == result.potential_assignments
           n == Len(result.raw_matches.combined)
       IN  /\ \E j \in 1..n, k \in (n + 1)..Len(potential) :
                  /\ AssnPart(potential[j].full_text) = potential[k].assignment_text
                  /\ potential[j].page = potential[k].page
           /\ \E a \in 1..Len(result.raw_matches.assignments) :
                  ~HasOverlappingDate(result.raw_matches.dates,
                                      result.raw_matches.assignments[a])

(***************************************************************************)
(* C17: the assignments list and the dates list that extract returns are   *)
(* each in document scan order: the page numbers do not decrease along the *)
(* list and are the 0-indexed page index plus one (so at least 1), and     *)
(* within one page the matches appear by ascending start offset; with      *)
(* filter_real the surviving assignment matches keep that relative order.  *)
(***************************************************************************)
\* Pages ascending, then start offsets ascending within a page
InScanOrder(occ) ==
    \A j, k \in 1..Len(occ) :
        j < k => \/ occ[j].page_num < occ[k].page_num
                 \/ /\ occ[j].page_num = occ[k].page_num
                    /\ occ[j].start < occ[k].start

\* The j-th smallest member of a set of indices
Nth(S, j) == CHOOSE i \in S : Cardinality({x \in S : x < i}) = j - 1

\* match is the match of the occurrence o
IsMatchOf(self, texts, match, o) ==
    /\ match.page_number = o.page_num + 1
    /\ match.page_number >= 1
    /\ match.text = Slice(texts[o.page_num + 1], o.start, o.end)
    /\ match.context = ExtractContext(self, texts[o.page_num + 1], o.start, o.end)

\* list holds the matches of the occurrences picked, in the order of occ
Follows(self, texts, list, occ, picked) ==
    /\ Len(list) = Cardinality(picked)
    /\ \A j \in 1..Len(list) : IsMatchOf(self, texts, list[j], occ[Nth(picked, j)])

NonDecreasingPages(list) ==
    \A j, k \in 1..Len(list) : j < k => list[j].page_number <= list[k].page_number

ReturnedInScanOrder(self, texts, list, occ, whole) ==
    /\ InScanOrder(occ)
    /\ NonDecreasingPages(list)
    /\ \E picked \in SUBSET (1..Len(occ)) :
           /\ whole => picked = 1..Len(occ)
           /\ Follows(self, texts, list, occ, picked)

C17_ListsInScanOrder ==
    (pc = "done" /\ result.kind = "extract") =>
        /\ ReturnedInScanOrder(parser, page_texts, result.matches.assignments,
                               Occurrences(assignment_pattern, page_texts), ~filter_real)
        /\ ReturnedInScanOrder(parser, page_texts, result.matches.dates,
                               Occurrences(combined_date_pattern, page_texts), TRUE)

\* A filtered list that lost the match between two matches of one page, which
\* it keeps in their order.
C17_Witness ==
    /\ pc = "done" /\ result.kind = "extract" /\ filter_real
    /\ LET list == result.matches.assignments
       IN  /\ Len(list) < Len(Occurrences(assignment_pattern, page_texts))
           /\ \E j, k \in 1..Len(list) :
                  /\ j < k
                  /\ list[j].page_number = list[k].page_number
                  /\ list[j].text # list[k].text

(***************************************************************************)
(* C18: filter and report agree on classification.  In a report made with  *)
(* filter_real every assignment entry of by_page, and every entry of       *)
(* potential_assignments that carries classification fields, has is_real   *)
(* true; and for any one assignment match the is_real and confidence shown *)
(* in by_page, in potential_assignments and by                             *)
(* get_assignments_with_confidence on the same document are the same.      *)
(***************************************************************************)
\* What get_assignments_with_confidence tells of the document: text, page,
\* context and verdict of every assignment match
ScoredOf(self, d, texts, dates) ==
    LET found  == CHOOSE list \in FindAssignments(self, d, texts) : TRUE
        scored == AssignmentsWithConfidence(self, found, dates)
    IN  {[text |-> scored[j].text, page |-> scored[j].page, context |-> scored[j].context,
          is_real |-> scored[j].is_real, confidence |-> scored[j].confidence] :
            j \in 1..Len(scored)}

\* The assignment entries of by_page, with their pages
ByPageEntries(by_page) ==
    UNION {{[page |-> p, entry |-> by_page[p].assignments[j]] :
                j \in 1..Len(by_page[p].assignments)} : p \in DOMAIN by_page}

\* The entries of potential_assignments that carry a classification
Classified(potential) ==
    {potential[j] : j \in {k \in 1..Len(potential) : "is_real" \in DOMAIN potential[k]}}

AllReal(by_page, potential) ==
    /\ \A e \in ByPageEntries(by_page) : e.entry.is_real
    /\ \A e \in Classified(potential) : e.is_real

\* The scored matches the entry e of potential_assignments stands for
ScoredFor(scored, e) ==
    IF "assignment_text" \in DOMAIN e
    THEN {s \in scored : s.text = e.assignment_text /\ s.page = e.page
                         /\ s.context = e.context}
    ELSE {s \in scored : s.text = AssnPart(e.full_text) /\ s.page = e.page}

SameVerdicts(scored, by_page, potential) ==
    /\ \A e \in ByPageEntries(by_page) :
           LET same == {s \in scored : s.text = e.entry.text /\ s.page = e.page
                                       /\ s.context = e.entry.context}
           IN  /\ same # {}
               /\ \A s \in same : /\ s.is_real = e.entry.is_real
                                  /\ s.confidence = e.entry.confidence
    /\ \A e \in Classified(potential) :
           \E s \in ScoredFor(scored, e) : /\ s.is_real = e.is_real
                                           /\ s.confidence = e.confidence

C18_FilterAndReportAgree ==
    (pc = "done" /\ result.kind = "report") =>
        /\ filter_real => AllReal(result.by_page, result.potential_assignments)
        /\ SameVerdicts(ScoredOf(parser, doc, page_texts, result.raw_matches.dates),
                        result.by_page, result.potential_assignments)

\* A report made with filter_real from which the filter dropped a match,
\* with a classified entry in by_page and one in potential_assignments.
C18_Witness ==
    /\ pc = "done" /\ result.kind = "report" /\ filter_real
    /\ Len(result.raw_matches.assignments)
           < Len(Occurrences(assignment_pattern, page_texts))
    /\ ByPageEntries(result.by_page) # {}
    /\ Classified(result.potential_assignments) # {}

(***************************************************************************)
(* C19: within one request the document handle is never used after it has  *)
(* been closed: every read of a page text and every spatial lookup happens *)
(* between the open and the close, and the steps that run after the close  *)
(* (the scoring of get_assignments_with_confidence, the classification and *)
(* aggregation of get_structured_data) read only the page texts and match  *)
(* records in memory.                                                      *)
(***************************************************************************)
\* The steps that read the document: get_text of a page, search_for on a page
ReadsDocument == pc \in {"read", "find_assignments", "find_dates"}

\* The steps that run after doc.close()
AfterClose == pc \in {"score", "return", "report"}

\* A step that leaves what was read from the document as it is
KeepsWhatWasRead ==
    UNCHANGED <<doc, handle, page_texts, assignment_matches, date_matches,
                combined_matches>>

C19_NoUseAfterClose ==
    /\ [](ReadsDocument => handle = "open")
    /\ [](AfterClose => handle = "closed")
    /\ [][AfterClose => KeepsWhatWasRead]_vars

\* A report about to be built, the handle closed, from matches of which one
\* has the rectangle a lookup found.
C19_Witness ==
    /\ pc = "report"
    /\ handle = "closed"
    /\ \E j \in 1..Len(assignment_matches) : assignment_matches[j].position # SentinelBox

=============================================================================
